---- MODULE Spec2Model ----
(***************************************************************************)
(* The chunk journal writer of go/store/nbs (journalWriter): a buffered,   *)
(* append-only writer over a pre-allocated, zero-filled file, with an      *)
(* in-memory lookup index, straddled reads, snapshots and replay.          *)
(*                                                                         *)
(* Bytes are natural numbers; 0 is the zero fill of the file.  The file    *)
(* is seen at two levels: |file| is what every descriptor on the path      *)
(* reads and writes (the page cache), |synced| is what has reached the     *)
(* device.  A crash loses the writer object and leaves on the path the     *)
(* device content plus a prefix, in offset order, of the unsynced bytes.   *)
(***************************************************************************)
EXTENDS Integers, Sequences, FiniteSets, TLC

\* ---------------------------------------------------------------- sizes --
\* journalWriterBuffSize (1 MiB in the source), scaled to a few bytes
journalWriterBuffSize == 6
\* chunkJournalFileSize (256 MiB in the source), scaled to a few bytes
chunkJournalFileSize == 10
\* the operations stop appending once the logical end reaches this offset
MaxJournal == 12
\* number of times the journal is reopened
MaxOpens == 2
\* number of system calls of the operations that change the journal that
\* fail with an I/O error
MaxFaults == 1
\* longest destination slice handed to ReadAt
MaxRead == 3

\* -------------------------------------------------------------- errors --
NoErr == "nil"
IoError == "IoError"
ErrClosed == "ErrClosed"
OversizeRecord == "OversizeRecord"
CorruptRecord == "CorruptRecord"
AddressMismatch == "AddressMismatch"
UnknownRecordKind == "UnknownRecordKind"
Panic == "panic"
AlreadyExists == "AlreadyExists"
IsDirectory == "IsDirectory"

\* ---------------------------------------------------------- record codec --
\* framing: [length | kind | address | payload | checksum], one byte each
\* but for the payload
chunkJournalRecKind == 1
rootHashJournalRecKind == 2
recMinSz == 4
payloadOffset == 3
zeroHash == 0

RECURSIVE SumSeq(_)
SumSeq(s) == IF s = <<>> THEN 0 ELSE Head(s) + SumSeq(Tail(s))

\* never 0, so that a record ending in the zero fill cannot validate
checksum(bytes) == (SumSeq(bytes) % 7) + 1

Zeros(n) == [i \in 1..n |-> 0]

\* the bytes of s at offsets [o, o+n), cut at the end of s
Slice(s, o, n) ==
  LET hi == IF o + n < Len(s) THEN o + n ELSE Len(s)
  IN  IF o >= hi THEN <<>> ELSE SubSeq(s, o + 1, hi)

\* chunk addresses: a small chunk, a chunk whose record exactly fills the
\* buffer, one whose record is one byte too long
\* (addresses 1, 2 and 3 in that order)
ChunkAddrs == {1, 2, 3}
\* chunks with an empty payload, whose records have the minimum size
TinyAddrs == {6, 7, 8}
RootHashes == {4, 5}

PayloadLen(a) ==
  IF a = 1 THEN 1
  ELSE IF a = 2 THEN journalWriterBuffSize - recMinSz
  ELSE IF a = 3 THEN journalWriterBuffSize - recMinSz + 1
  ELSE 0

\* chunks are content addressed: the address determines the payload
PayloadOf(a) == [i \in 1..PayloadLen(a) |-> 10 * a + i]

NewCompressedChunk(h, data) == [H |-> h, FullCompressedChunk |-> data]
EmptyChunk == [H |-> zeroHash, FullCompressedChunk |-> <<>>]
Chunks == {NewCompressedChunk(a, PayloadOf(a)) : a \in ChunkAddrs}
TinyChunks == {NewCompressedChunk(a, PayloadOf(a)) : a \in TinyAddrs}
\* values a corrupted byte takes
CorruptBytes == {0, 8}

chunkRecordSize(cc) ==
  [l |-> recMinSz + Len(cc.FullCompressedChunk), o |-> payloadOffset]

rootHashRecordSize == recMinSz

Framed(body) == body \o <<checksum(body)>>

writeChunkRecord(cc) ==
  Framed(<<chunkRecordSize(cc).l, chunkJournalRecKind, cc.H>>
           \o cc.FullCompressedChunk)

writeRootHashRecord(a) ==
  Framed(<<rootHashRecordSize, rootHashJournalRecKind, a>>)

uncompressedPayloadSize(payload) == 2 * Len(payload)

\* framing of the record that starts at the head of |bytes|
validateJournalRecord(bytes) ==
  /\ Len(bytes) >= recMinSz
  /\ bytes[1] >= recMinSz
  /\ bytes[1] <= Len(bytes)
  /\ bytes[bytes[1]] = checksum(SubSeq(bytes, 1, bytes[1] - 1))

readJournalRecord(bytes) ==
  IF ~validateJournalRecord(bytes)
  THEN [err |-> CorruptRecord, kind |-> 0, address |-> zeroHash,
        payload |-> <<>>, length |-> 0]
  ELSE [err |-> NoErr, kind |-> bytes[2], address |-> bytes[3],
        payload |-> SubSeq(bytes, payloadOffset + 1, bytes[1] - 1),
        length |-> bytes[1]]


\* ------------------------------------------------------------ os.File --
\* |f| after the first |n| bytes of |b| are written at offset |o|; a write
\* past the end extends the file
WriteBytes(f, b, o, n) ==
  LET end == IF o + n > Len(f) THEN o + n ELSE Len(f)
  IN  [i \in 1..end |->
         IF i > o /\ i <= o + n THEN b[i - o]
         ELSE IF i <= Len(f) THEN f[i] ELSE 0]

\* outcomes of file.WriteAt(b, _): the bytes written and the error.  An
\* empty write makes no system call and succeeds even on a closed file;
\* a failing write may have written any proper prefix of |b|.
WriteAtOutcomes(b, open) ==
  IF b = <<>> THEN {[n |-> 0, err |-> NoErr]}
  ELSE IF ~open THEN {[n |-> 0, err |-> ErrClosed]}
  ELSE {[n |-> Len(b), err |-> NoErr]}
         \cup {[n |-> k, err |-> IoError] : k \in 0..(Len(b) - 1)}

\* outcomes of file.ReadAt(p, _) with len(p) = n, inside the file
ReadAtOutcomes(n, open) ==
  IF n = 0 THEN {NoErr}
  ELSE IF ~open THEN {ErrClosed}
  ELSE {NoErr, IoError}

\* outcomes of file.Sync(), file.Close() and os.Open(path)
SyncOutcomes(open) == IF open THEN {NoErr, IoError} ELSE {ErrClosed}
CloseOutcomes(open) == IF open THEN {NoErr, IoError} ELSE {ErrClosed}
OpenOutcomes == {NoErr, IoError}

\* outcomes of os.Stat(path) other than "does not exist"
StatOutcomes == {NoErr, IoError}

\* outcomes of file.Seek(0, io.SeekStart) on the new file
SeekOutcomes == {NoErr, IoError}

\* the number of system calls of |io| that failed with an I/O error
Faults(io) == Cardinality({i \in DOMAIN io : io[i] = IoError})

\* ------------------------------------------------- journalWriter helpers --
\* The helpers work on a record w = [buf, off, file, err, io]: the
\* writer's buffer and offset, the bytes of the file, the error returned,
\* and the outcomes of the system calls made so far in the operation.

\* faulty variant of offset: the bytes still in the buffer are not counted
offsetFlushedOnly(w) == w.off

offset(w) == w.off + Len(w.buf)

\* faulty variant of flush: the buffer is emptied but off is not advanced
flushNoAdvance(w, wo) ==
  LET f == WriteBytes(w.file, w.buf, w.off, wo.n)
      io == Append(w.io, wo.err)
  IN  IF wo.err # NoErr
      THEN [w EXCEPT !.file = f, !.err = wo.err, !.io = io]
      ELSE [buf |-> <<>>, off |-> w.off, file |-> f, err |-> NoErr,
            io |-> io]

\* faulty variant of flush: the buffer is written at the start of the file
flushAtZero(w, wo) ==
  LET f == WriteBytes(w.file, w.buf, 0, wo.n)
      io == Append(w.io, wo.err)
  IN  IF wo.err # NoErr
      THEN [w EXCEPT !.file = f, !.err = wo.err, !.io = io]
      ELSE [buf |-> <<>>, off |-> w.off + Len(w.buf), file |-> f,
            err |-> NoErr, io |-> io]

\* faulty variant of flush: off is advanced but the buffer is not emptied
flushKeepsBuf(w, wo) ==
  LET f == WriteBytes(w.file, w.buf, w.off, wo.n)
      io == Append(w.io, wo.err)
  IN  IF wo.err # NoErr
      THEN [w EXCEPT !.file = f, !.err = wo.err, !.io = io]
      ELSE [buf |-> w.buf, off |-> w.off + Len(w.buf), file |-> f,
            err |-> NoErr, io |-> io]

\* faulty variant of flush: a failed write advances off by the bytes it
\* wrote
flushAdvancesOnError(w, wo) ==
  LET f == WriteBytes(w.file, w.buf, w.off, wo.n)
      io == Append(w.io, wo.err)
  IN  IF wo.err # NoErr
      THEN [w EXCEPT !.file = f, !.off = w.off + wo.n, !.err = wo.err,
                     !.io = io]
      ELSE [buf |-> <<>>, off |-> w.off + Len(w.buf), file |-> f,
            err |-> NoErr, io |-> io]

\* flush with |wo| the outcome of its WriteAt
flush(w, wo) ==
  LET f == WriteBytes(w.file, w.buf, w.off, wo.n)
      io == Append(w.io, wo.err)
  IN  IF wo.err # NoErr
      THEN [w EXCEPT !.file = f, !.err = wo.err, !.io = io]
      ELSE [buf |-> <<>>, off |-> w.off + Len(w.buf), file |-> f,
            err |-> NoErr, io |-> io]

\* faulty variant of getBytes: a request of exactly the capacity is rejected
getBytesRejectsFit(w, n, wo) ==
  LET c == journalWriterBuffSize
      l == Len(w.buf)
      w1 == IF n > c - l THEN flush(w, wo) ELSE [w EXCEPT !.err = NoErr]
  IN  IF n >= c THEN [w EXCEPT !.err = OversizeRecord]
      ELSE IF w1.err # NoErr THEN w1
      ELSE [w1 EXCEPT !.buf = w1.buf \o Zeros(n)]

\* faulty variant of getBytes: the bytes are reserved before the flush that
\* makes room, so that the flush takes the reservation with it
getBytesFlushesAfter(w, n, wo) ==
  LET c == journalWriterBuffSize
      l == Len(w.buf)
      w0 == [w EXCEPT !.buf = w.buf \o Zeros(n), !.err = NoErr]
      w1 == IF n > c - l THEN flush(w0, wo) ELSE w0
  IN  IF n > c THEN [w EXCEPT !.err = OversizeRecord]
      ELSE IF w1.err # NoErr THEN [w1 EXCEPT !.buf = w.buf]
      ELSE w1

\* getBytes(n) with |wo| the outcome of the WriteAt of the flush it may
\* make.  The reservation is returned as the last n bytes of buf; every
\* caller fills all of it before it releases the lock.
getBytes(w, n, wo) ==
  LET c == journalWriterBuffSize
      l == Len(w.buf)
      w1 == IF n > c - l THEN flush(w, wo) ELSE [w EXCEPT !.err = NoErr]
  IN  IF n > c THEN [w EXCEPT !.err = OversizeRecord]
      ELSE IF w1.err # NoErr THEN w1
      ELSE [w1 EXCEPT !.buf = w1.buf \o Zeros(n)]

\* the reservation at the tail of buf filled with |bytes|
Fill(w, bytes) ==
  [w EXCEPT !.buf = SubSeq(w.buf, 1, Len(w.buf) - Len(bytes)) \o bytes]

\* faulty variant of bufOffset: the offset is not reset after the file part
bufOffsetStale(o, wo) == IF o < wo THEN o ELSE o - wo

\* where in the buffer ReadAt starts to copy: at 0 after a file part, at
\* o - wr.off otherwise
bufOffset(o, wo) == IF o < wo THEN 0 ELSE o - wo

\* ReadAt(p, o) with len(p) = n, on a writer with buffer b at offset wo
\* over file f; |ro| is the outcome of the file read it may make.
\* Returns the count n, the bytes delivered, and the error.
ReadAtOf(b, wo, f, o, n, ro) ==
  LET inFile == o < wo
      fread == wo - o
      pLen == IF inFile THEN (IF n > fread THEN fread ELSE n) ELSE 0
      bpLen == IF inFile THEN n - pLen ELSE n
      bo == bufOffset(o, wo)
      ferr == IF ~inFile THEN NoErr
              ELSE IF ro # NoErr THEN ro
              ELSE IF o + pLen > Len(f) THEN IoError
              ELSE NoErr
      fromFile == Slice(f, o, pLen)
      fromBuf == Slice(b, bo, bpLen)
  IN  IF ferr # NoErr THEN [n |-> 0, data |-> <<>>, err |-> ferr]
      ELSE IF bo > Len(b) THEN [n |-> 0, data |-> <<>>, err |-> Panic]
      ELSE [n |-> pLen + Len(fromBuf), data |-> fromFile \o fromBuf,
            err |-> NoErr]

\* getCompressed(h) on lookups lk; |ro| as for ReadAtOf
getCompressedOf(lk, b, wo, f, h, ro) ==
  IF h \notin DOMAIN lk THEN [cc |-> EmptyChunk, err |-> NoErr]
  ELSE
    LET l == lk[h]
        r == ReadAtOf(b, wo, f, l.journalOff, l.recordLen, ro)
        bytes == r.data \o Zeros(l.recordLen - Len(r.data))
        rec == readJournalRecord(bytes)
    IN  IF r.err # NoErr THEN [cc |-> EmptyChunk, err |-> NoErr]
        ELSE IF rec.err # NoErr THEN [cc |-> EmptyChunk, err |-> rec.err]
        ELSE IF h # rec.address
          THEN [cc |-> EmptyChunk, err |-> AddressMismatch]
        ELSE [cc |-> NewCompressedChunk(h, rec.payload), err |-> NoErr]

\* faulty variant of ProcessRecord: a chunk is indexed at the offset of its
\* payload
ProcessRecordAtPayload(acc, o, r) ==
  IF r.kind = chunkJournalRecKind
  THEN [acc EXCEPT
          !.lookups = (r.address :> [journalOff |-> o + payloadOffset,
                                     recordLen |-> r.length,
                                     payloadOff |-> payloadOffset])
                        @@ acc.lookups,
          !.uncmpSz = acc.uncmpSz + uncompressedPayloadSize(r.payload)]
  ELSE IF r.kind = rootHashJournalRecKind
  THEN [acc EXCEPT !.last = r.address]
  ELSE [acc EXCEPT !.err = UnknownRecordKind]

\* the callback ProcessJournal hands to processJournalRecords, applied to
\* the record r found at offset o
ProcessRecord(acc, o, r) ==
  IF r.kind = chunkJournalRecKind
  THEN [acc EXCEPT
          !.lookups = (r.address :> [journalOff |-> o,
                                     recordLen |-> r.length,
                                     payloadOff |-> payloadOffset])
                        @@ acc.lookups,
          !.uncmpSz = acc.uncmpSz + uncompressedPayloadSize(r.payload)]
  ELSE IF r.kind = rootHashJournalRecKind
  THEN [acc EXCEPT !.last = r.address]
  ELSE [acc EXCEPT !.err = UnknownRecordKind]

\* faulty variant of processJournalRecords: a record that does not validate
\* is skipped byte by byte and the scan goes on to the end of the file
RECURSIVE processJournalRecordsResync(_, _, _)
processJournalRecordsResync(f, o, acc) ==
  LET bytes == Slice(f, o, Len(f))
      r == readJournalRecord(bytes)
      a == ProcessRecord(acc, o, r)
  IN  IF o >= Len(f) THEN [acc EXCEPT !.off = o]
      ELSE IF ~validateJournalRecord(bytes)
        THEN processJournalRecordsResync(f, o + 1, acc)
      ELSE IF a.err # NoErr THEN [a EXCEPT !.off = 0]
      ELSE processJournalRecordsResync(f, o + r.length, a)

\* forward scan from offset o; stops at the first record whose framing
\* does not validate and returns that offset; returns offset 0 with the
\* error when the callback fails
RECURSIVE processJournalRecords(_, _, _)
processJournalRecords(f, o, acc) ==
  LET bytes == Slice(f, o, Len(f))
      r == readJournalRecord(bytes)
      a == ProcessRecord(acc, o, r)
  IN  IF ~validateJournalRecord(bytes) THEN [acc EXCEPT !.off = o]
      ELSE IF a.err # NoErr THEN [a EXCEPT !.off = 0]
      ELSE processJournalRecords(f, o + r.length, a)

\* what a crash leaves on the path: the first k bytes as last written, the
\* rest as last synced
Persisted(f, d, k) ==
  [i \in 1..Len(f) |->
     IF i <= k THEN f[i] ELSE IF i <= Len(d) THEN d[i] ELSE 0]

\* ------------------------------------------------------------- the path --
\* journalFileExists(path) with |so| the outcome of its os.Stat: a Stat
\* that fails for another reason than absence returns no FileInfo, and
\* info.IsDir() then dereferences nil
journalFileExists(kind, so) ==
  IF so = NoErr /\ kind = "absent" THEN [exists |-> FALSE, err |-> NoErr]
  ELSE IF so # NoErr THEN [exists |-> FALSE, err |-> Panic]
  ELSE IF kind = "dir" THEN [exists |-> TRUE, err |-> IsDirectory]
  ELSE [exists |-> TRUE, err |-> NoErr]

\* faulty variant of openStat: absence is reported as an error
openStatAbsentFails(kind, so) ==
  IF so # NoErr THEN [exists |-> FALSE, err |-> so]
  ELSE IF kind = "absent" THEN [exists |-> FALSE, err |-> IoError]
  ELSE IF kind = "dir" THEN [exists |-> TRUE, err |-> IsDirectory]
  ELSE [exists |-> TRUE, err |-> NoErr]

\* what openJournalWriter concludes from os.Stat
openStat(kind, so) ==
  IF so # NoErr THEN [exists |-> FALSE, err |-> so]
  ELSE IF kind = "absent" THEN [exists |-> FALSE, err |-> NoErr]
  ELSE IF kind = "dir" THEN [exists |-> TRUE, err |-> IsDirectory]
  ELSE [exists |-> TRUE, err |-> NoErr]

\* faulty variant of createStat: an existing path is not rejected
createStatOverwrites(kind, so) == so

\* what createJournalWriter concludes from os.Stat: anything found at the
\* path, a directory included, is "already exists"
createStat(kind, so) ==
  IF so # NoErr THEN so
  ELSE IF kind # "absent" THEN AlreadyExists
  ELSE NoErr

\* ---------------------------------------------------------------- state --
VARIABLES
  buf,       \* wr.buf[0:len]
  off,       \* wr.off
  lookups,   \* wr.lookups: address -> recLookup
  uncmpSz,   \* wr.uncmpSz
  fileOpen,  \* wr.file has not been closed
  wrState,   \* "ready", "needsReplay" (opened, not replayed), "failed"
             \* (replay returned an error), "none" (no writer: crashed)
  file,      \* the bytes of the journal file as descriptors see them
  synced,    \* the bytes of the journal file on the device
  snap,      \* the reader the last Snapshot returned
  ret,       \* the call that has just returned: operation, argument,
             \* result, error and the outcomes of its system calls; "idle"
             \* once the caller has taken the result
  \* history variables, read by no operation
  journal,   \* concatenation of all records appended to the logical journal
  lastRoot,  \* address of the last root-hash record appended
  written,   \* addresses WriteChunk has written on this writer
  raw,       \* Write has put unframed bytes in this journal
  closed,    \* Close has returned nil on this writer
  origin,    \* how the previous writer left the file
  preClose,  \* index, logical end and last root when Close returned nil,
             \* and the offset of the record corrupted since
  opens,     \* number of times the journal was reopened
  faults,    \* number of system calls of the operations that change the
             \* journal that failed with an I/O error
  durable,   \* chunks and root covered by the last successful WriteRootHash
  later,     \* roots appended after that
  seen,      \* the largest value CurrentSize has returned on this writer
  pathKind,  \* what os.Stat finds at the journal path: "absent", "file"
             \* or "dir"
  replayFirst, \* the caller calls ProcessJournal on an opened writer
             \* before any other operation
  lock,      \* wr.lock: the number of read locks held, and whether a
             \* writer holds it, waits for it, or neither
  pc         \* per thread: the operation it is in and where in it

wvars == <<buf, off, lookups, uncmpSz, fileOpen, wrState>>
fvars == <<file, synced>>
hvars == <<journal, lastRoot, written, raw, closed, origin, preClose,
           opens, faults, durable, later>>
cvars == <<replayFirst, lock, pc>>
xvars == <<seen, pathKind, cvars>>

\* one writer thread and two reader threads
Threads == {"w", "r1", "r2"}
WriterOps == {"WriteChunk", "WriteRootHash", "Snapshot", "Close"}
ReaderOps == {"getCompressed", "ReadAt", "has", "getRange", "CurrentSize"}
NoLock == [readers |-> 0, writer |-> "none"]
NoOp == [op |-> "none", at |-> "idle"]
vars == <<wvars, fvars, snap, ret, hvars, xvars>>

NoPreClose == [lookups |-> <<>>, end |-> 0, lastRoot |-> zeroHash, cut |-> 0]
NoSnap == [valid |-> FALSE, n |-> 0]
Ret(op, arg, val, err, io) ==
  [op |-> op, arg |-> arg, val |-> val, err |-> err, io |-> io]
Idle == Ret("idle", 0, 0, NoErr, <<>>)

\* the writer as the helpers see it
W == [buf |-> buf, off |-> off, file |-> file, err |-> NoErr, io |-> <<>>]

Init ==
  \* createJournalWriter: zero-filled, synced file; empty writer
  /\ buf = <<>>
  /\ off = 0
  /\ lookups = <<>>
  /\ uncmpSz = 0
  /\ fileOpen = TRUE
  /\ wrState = "ready"
  /\ file = Zeros(chunkJournalFileSize)
  /\ synced = Zeros(chunkJournalFileSize)
  /\ snap = NoSnap
  /\ ret = Idle
  /\ journal = <<>>
  /\ lastRoot = zeroHash
  /\ written = {}
  /\ raw = FALSE
  /\ closed = FALSE
  /\ origin = "create"
  /\ preClose = NoPreClose
  /\ opens = 0
  /\ faults = 0
  /\ durable = [valid |-> FALSE, chunks |-> {}, root |-> zeroHash]
  /\ later = {}
  /\ seen = 0
  /\ pathKind = "file"
  /\ replayFirst = TRUE
  /\ lock = NoLock
  /\ pc = [t \in Threads |-> NoOp]

\* a created writer whose caller does not replay before it writes
InitUnreplayed ==
  /\ buf = <<>>
  /\ off = 0
  /\ lookups = <<>>
  /\ uncmpSz = 0
  /\ fileOpen = TRUE
  /\ wrState = "ready"
  /\ file = Zeros(chunkJournalFileSize)
  /\ synced = Zeros(chunkJournalFileSize)
  /\ snap = NoSnap
  /\ ret = Idle
  /\ journal = <<>>
  /\ lastRoot = zeroHash
  /\ written = {}
  /\ raw = FALSE
  /\ closed = FALSE
  /\ origin = "create"
  /\ preClose = NoPreClose
  /\ opens = 0
  /\ faults = 0
  /\ durable = [valid |-> FALSE, chunks |-> {}, root |-> zeroHash]
  /\ later = {}
  /\ seen = 0
  /\ pathKind = "file"
  /\ replayFirst = FALSE
  /\ lock = NoLock
  /\ pc = [t \in Threads |-> NoOp]

\* before any journal is created: nothing, or a directory, at the path
InitPath ==
  /\ buf = <<>>
  /\ off = 0
  /\ lookups = <<>>
  /\ uncmpSz = 0
  /\ fileOpen = FALSE
  /\ wrState = "none"
  /\ file = <<>>
  /\ synced = <<>>
  /\ snap = NoSnap
  /\ ret = Idle
  /\ journal = <<>>
  /\ lastRoot = zeroHash
  /\ written = {}
  /\ raw = FALSE
  /\ closed = FALSE
  /\ origin = "none"
  /\ preClose = NoPreClose
  /\ opens = 0
  /\ faults = 0
  /\ durable = [valid |-> FALSE, chunks |-> {}, root |-> zeroHash]
  /\ later = {}
  /\ seen = 0
  /\ pathKind \in {"absent", "dir"}
  /\ replayFirst = TRUE
  /\ lock = NoLock
  /\ pc = [t \in Threads |-> NoOp]

\* the model stops appending at MaxJournal
Room(n) == off + Len(buf) + n <= MaxJournal

\* the caller issues one call at a time
Called == ret.op = "idle"

\* the caller may use the writer: it was created or replayed, or it was
\* opened and the caller does not replay first
Usable == wrState = "ready" \/ (wrState = "needsReplay" /\ ~replayFirst)

\* the operation ends in w: the writer's buffer, offset and file, and the
\* budget of I/O errors
Ends(w) ==
  /\ buf' = w.buf
  /\ off' = w.off
  /\ file' = w.file
  /\ faults' = faults + Faults(w.io)
  /\ faults + Faults(w.io) <= MaxFaults

\* the caller takes the result
Return ==
  /\ ret.op # "idle"
  /\ ret' = Idle
  /\ UNCHANGED <<wvars, fvars, snap, hvars, xvars>>

\* ----------------------------------------------------------- operations --
WriteChunk(cc) ==
  /\ Called
  /\ Usable
  /\ chunkRecordSize(cc).l > journalWriterBuffSize
        \/ Room(chunkRecordSize(cc).l)
  /\ \E wo \in WriteAtOutcomes(buf, fileOpen) :
       LET sz == chunkRecordSize(cc)
           rec == [journalOff |-> offset(W), recordLen |-> sz.l,
                   payloadOff |-> sz.o]
           w1 == getBytes(W, sz.l, wo)
           w2 == Fill(w1, writeChunkRecord(cc))
       IN  IF w1.err # NoErr
           THEN /\ Ends(w1)
                /\ ret' = Ret("WriteChunk", cc.H, 0, w1.err, w1.io)
                /\ UNCHANGED <<lookups, journal, written>>
           ELSE /\ Ends(w2)
                /\ lookups' = (cc.H :> rec) @@ lookups
                /\ ret' = Ret("WriteChunk", cc.H, 0, NoErr, w2.io)
                /\ journal' = journal \o writeChunkRecord(cc)
                /\ written' = written \cup {cc.H}
  /\ UNCHANGED <<uncmpSz, fileOpen, wrState, synced, snap, lastRoot, raw,
                 closed, origin, preClose, opens, durable, later, xvars>>

WriteRootHash(root) ==
  /\ Called
  /\ Usable
  /\ Room(rootHashRecordSize)
  /\ \E wo1 \in WriteAtOutcomes(buf, fileOpen) :
       LET w1 == getBytes(W, rootHashRecordSize, wo1)
           w2 == Fill(w1, writeRootHashRecord(root))
       IN  IF w1.err # NoErr
           THEN /\ Ends(w1)
                /\ ret' = Ret("WriteRootHash", root, 0, w1.err, w1.io)
                /\ UNCHANGED <<synced, journal, lastRoot, durable, later>>
           ELSE \E wo2 \in WriteAtOutcomes(w2.buf, fileOpen),
                   so \in SyncOutcomes(fileOpen) :
                  LET w3 == flush(w2, wo2)
                      w4 == IF w3.err # NoErr THEN w3
                            ELSE [w3 EXCEPT !.err = so,
                                            !.io = Append(w3.io, so)]
                  IN  /\ Ends(w4)
                      /\ journal' = journal \o writeRootHashRecord(root)
                      /\ lastRoot' = root
                      /\ ret' = Ret("WriteRootHash", root, 0, w4.err, w4.io)
                      /\ IF w4.err = NoErr
                         THEN /\ synced' = w4.file
                              /\ durable' = [valid |-> TRUE,
                                   chunks |-> durable.chunks \cup written,
                                   root |-> root]
                              /\ later' = {}
                         ELSE /\ UNCHANGED <<synced, durable>>
                              /\ later' = later \cup {root}
  /\ UNCHANGED <<lookups, uncmpSz, fileOpen, wrState, snap, written, raw,
                 closed, origin, preClose, opens, xvars>>

\* inputs of the test-only Write: bytes that frame no record
RawInputs == {<<9, 9>>}

Write(p) ==
  /\ Called
  /\ Usable
  /\ Room(Len(p))
  /\ IF Len(p) > Len(buf)
     THEN \* write directly to the file
       \E wo1 \in WriteAtOutcomes(buf, fileOpen),
          wo2 \in WriteAtOutcomes(p, fileOpen) :
         LET w1 == flush(W, wo1)
             w2 == [w1 EXCEPT
                      !.file = WriteBytes(w1.file, p, w1.off, wo2.n),
                      !.off = w1.off + wo2.n,
                      !.err = wo2.err,
                      !.io = Append(w1.io, wo2.err)]
         IN  IF w1.err # NoErr
             THEN /\ Ends(w1)
                  /\ ret' = Ret("Write", p, 0, w1.err, w1.io)
                  /\ UNCHANGED <<journal, raw>>
             ELSE /\ Ends(w2)
                  /\ ret' = Ret("Write", p, wo2.n, wo2.err, w2.io)
                  /\ journal' = journal \o SubSeq(p, 1, wo2.n)
                  /\ raw' = (raw \/ wo2.n > 0)
     ELSE
       \E wo \in WriteAtOutcomes(buf, fileOpen) :
         LET w1 == getBytes(W, Len(p), wo)
             w2 == Fill(w1, p)
         IN  IF w1.err # NoErr
             THEN /\ Ends(w1)
                  /\ ret' = Ret("Write", p, 0, w1.err, w1.io)
                  /\ UNCHANGED <<journal, raw>>
             ELSE /\ Ends(w2)
                  /\ ret' = Ret("Write", p, Len(p), NoErr, w2.io)
                  /\ journal' = journal \o p
                  /\ raw' = TRUE
  /\ UNCHANGED <<lookups, uncmpSz, fileOpen, wrState, synced, snap,
                 lastRoot, written, closed, origin, preClose, opens,
                 durable, later, xvars>>

\* faulty variant of Snapshot: the buffer is not flushed first
SnapshotNoFlush ==
  /\ Called
  /\ Usable
  /\ \E oo \in OpenOutcomes :
       LET w2 == [W EXCEPT !.err = oo, !.io = <<oo>>]
       IN  /\ Ends(w2)
           /\ IF w2.err # NoErr
              THEN /\ ret' = Ret("Snapshot", offset(W), 0, w2.err, w2.io)
                   /\ UNCHANGED snap
              ELSE /\ ret' = Ret("Snapshot", offset(W), offset(W), NoErr,
                                 w2.io)
                   /\ snap' = [valid |-> TRUE, n |-> offset(W)]
  /\ UNCHANGED <<lookups, uncmpSz, fileOpen, wrState, synced, journal,
                 lastRoot, written, raw, closed, origin, preClose, opens,
                 durable, later, xvars>>

Snapshot ==
  /\ Called
  /\ Usable
  /\ \E wo \in WriteAtOutcomes(buf, fileOpen), oo \in OpenOutcomes :
       LET w1 == flush(W, wo)
           w2 == IF w1.err # NoErr THEN w1
                 ELSE [w1 EXCEPT !.err = oo, !.io = Append(w1.io, oo)]
       IN  /\ Ends(w2)
           /\ IF w2.err # NoErr
              THEN /\ ret' = Ret("Snapshot", offset(W), 0, w2.err, w2.io)
                   /\ UNCHANGED snap
              ELSE /\ ret' = Ret("Snapshot", offset(W), w2.off, NoErr, w2.io)
                   /\ snap' = [valid |-> TRUE, n |-> w2.off]
  /\ UNCHANGED <<lookups, uncmpSz, fileOpen, wrState, synced, journal,
                 lastRoot, written, raw, closed, origin, preClose, opens,
                 durable, later, xvars>>

\* the reader Snapshot returned, read to completion: io.LimitReader over
\* a descriptor of its own on the path
ReadSnapshot ==
  /\ Called
  /\ snap.valid
  /\ ret' = Ret("ReadSnapshot", snap.n, Slice(file, 0, snap.n), NoErr, <<>>)
  /\ UNCHANGED <<wvars, fvars, snap, hvars, xvars>>

CurrentSize ==
  /\ Called
  /\ wrState = "ready"
  /\ ret' = Ret("CurrentSize", 0, off, NoErr, <<>>)
  /\ seen' = IF off > seen THEN off ELSE seen
  /\ UNCHANGED <<wvars, fvars, snap, hvars, pathKind, cvars>>

uncompressedSize ==
  /\ Called
  /\ wrState = "ready"
  /\ ret' = Ret("uncompressedSize", 0, uncmpSz, NoErr, <<>>)
  /\ UNCHANGED <<wvars, fvars, snap, hvars, xvars>>

has(h) ==
  /\ Called
  /\ wrState = "ready"
  /\ ret' = Ret("has", h, h \in DOMAIN lookups, NoErr, <<>>)
  /\ UNCHANGED <<wvars, fvars, snap, hvars, xvars>>

getCompressed(h) ==
  /\ Called
  /\ wrState = "ready"
  /\ LET inFile == h \in DOMAIN lookups /\ lookups[h].journalOff < off
     IN  \E ro \in ReadAtOutcomes(IF inFile THEN 1 ELSE 0, fileOpen) :
           LET r == getCompressedOf(lookups, buf, off, file, h, ro)
               io == IF inFile THEN <<ro>> ELSE <<>>
           IN  /\ ret' = Ret("getCompressed", h, r.cc, r.err, io)
               /\ UNCHANGED <<wvars, fvars, snap, hvars, xvars>>

ReadAt(o, n) ==
  /\ Called
  /\ wrState = "ready"
  /\ o <= off + Len(buf) + 1
  /\ LET inFile == o < off /\ n > 0
     IN  \E ro \in ReadAtOutcomes(IF inFile THEN 1 ELSE 0, fileOpen) :
           LET r == ReadAtOf(buf, off, file, o, n, ro)
               io == IF inFile THEN <<ro>> ELSE <<>>
           IN  /\ ret' = Ret("ReadAt", [o |-> o, n |-> n],
                             [n |-> r.n, data |-> r.data], r.err, io)
               /\ UNCHANGED <<wvars, fvars, snap, hvars, xvars>>

Close ==
  /\ Called
  /\ Usable
  /\ \E wo \in WriteAtOutcomes(buf, fileOpen), so \in SyncOutcomes(fileOpen),
        co \in CloseOutcomes(fileOpen) :
       LET w1 == flush(W, wo)
           w2 == IF w1.err # NoErr THEN w1
                 ELSE [w1 EXCEPT
                         !.err = IF co # NoErr THEN co ELSE so,
                         !.io = w1.io \o <<so, co>>]
       IN  /\ Ends(w2)
           /\ ret' = Ret("Close", 0, 0, w2.err, w2.io)
           /\ IF w1.err # NoErr
              THEN UNCHANGED <<fileOpen, synced>>
              ELSE /\ fileOpen' = FALSE
                   /\ synced' = IF so = NoErr THEN w1.file ELSE synced
           /\ closed' = (closed \/ w2.err = NoErr)
           /\ origin' = IF w2.err = NoErr THEN "close"
                        ELSE IF closed THEN origin ELSE "dirty"
           /\ preClose' = IF w2.err = NoErr
                          THEN [lookups |-> lookups, end |-> offset(W),
                                lastRoot |-> lastRoot, cut |-> 0]
                          ELSE preClose
  /\ UNCHANGED <<lookups, uncmpSz, wrState, snap, journal, lastRoot,
                 written, raw, opens, durable, later, xvars>>

\* a byte of the record of chunk h is damaged on the medium after the
\* journal was closed for the first time
Corrupt(h, i, v) ==
  /\ Called
  /\ origin = "close"
  /\ opens = 0
  /\ ~fileOpen
  /\ h \in DOMAIN preClose.lookups
  /\ i \in 1..preClose.lookups[h].recordLen
  /\ LET at == preClose.lookups[h].journalOff + i
     IN  /\ file[at] # v
         /\ file' = [file EXCEPT ![at] = v]
         /\ synced' = [synced EXCEPT ![at] = v]
  /\ origin' = "corrupt"
  /\ preClose' = [preClose EXCEPT !.cut = preClose.lookups[h].journalOff]
  /\ ret' = Ret("Corrupt", h, i, NoErr, <<>>)
  /\ UNCHANGED <<wvars, snap, journal, lastRoot, written, raw, closed,
                 opens, faults, durable, later, xvars>>

\* the process dies: the writer is lost, and the path keeps what was
\* synced plus a prefix of what was not
Crash ==
  /\ Called
  /\ wrState # "none"
  /\ \E k \in 0..Len(file) :
       /\ file' = Persisted(file, synced, k)
       /\ synced' = Persisted(file, synced, k)
  /\ buf' = <<>> /\ off' = 0 /\ lookups' = <<>> /\ uncmpSz' = 0
  /\ fileOpen' = FALSE
  /\ wrState' = "none"
  /\ snap' = NoSnap
  /\ ret' = Ret("Crash", 0, 0, NoErr, <<>>)
  /\ journal' = <<>> /\ lastRoot' = zeroHash /\ written' = {}
  /\ closed' = FALSE
  /\ origin' = IF closed THEN origin ELSE "crash"
  /\ seen' = 0
  /\ UNCHANGED <<raw, preClose, opens, faults, durable, later, pathKind,
                 cvars>>

\* createJournalWriter(path).  Nothing is at the path when the checks
\* pass; os.OpenFile with O_CREATE and without O_TRUNC would open a file
\* that is there and fail on a directory, and the zero fill writes from
\* offset 0.  A failure after OpenFile leaves the file behind.
Create ==
  /\ Called
  /\ \E so \in StatOutcomes, oo \in OpenOutcomes,
        wo \in WriteAtOutcomes(Zeros(chunkJournalFileSize), TRUE),
        yo \in SyncOutcomes(TRUE), ko \in SeekOutcomes :
       LET st == createStat(pathKind, so)
           oerr == IF pathKind = "dir" THEN IoError ELSE oo
           f0 == IF pathKind = "file" THEN file ELSE <<>>
           f1 == WriteBytes(f0, Zeros(chunkJournalFileSize), 0, wo.n)
           io == IF st # NoErr THEN <<so>>
                 ELSE IF oerr # NoErr THEN <<so, oerr>>
                 ELSE IF wo.err # NoErr THEN <<so, oerr, wo.err>>
                 ELSE IF yo # NoErr THEN <<so, oerr, wo.err, yo>>
                 ELSE <<so, oerr, wo.err, yo, ko>>
           err == IF st # NoErr THEN st ELSE io[Len(io)]
       IN  /\ faults' = faults + Faults(io)
           /\ faults + Faults(io) <= MaxFaults
           /\ ret' = Ret("Create", pathKind, err = NoErr, err, io)
           /\ IF Len(io) < 3
              THEN UNCHANGED <<wvars, fvars, snap, journal, lastRoot,
                               written, raw, closed, origin, preClose,
                               durable, later, xvars>>
              ELSE /\ file' = f1
                   /\ synced' = f1
                   /\ pathKind' = "file"
                   /\ buf' = <<>> /\ off' = 0 /\ lookups' = <<>>
                   /\ uncmpSz' = 0
                   /\ fileOpen' = (err = NoErr)
                   /\ wrState' = IF err = NoErr THEN "ready" ELSE "none"
                   /\ snap' = NoSnap
                   /\ journal' = <<>> /\ lastRoot' = zeroHash
                   /\ written' = {} /\ raw' = FALSE /\ closed' = FALSE
                   /\ origin' = "create"
                   /\ preClose' = NoPreClose
                   /\ durable' = [valid |-> FALSE, chunks |-> {},
                                  root |-> zeroHash]
                   /\ later' = {}
                   /\ seen' = 0
  /\ UNCHANGED <<opens, cvars>>

\* journalFileExists(path)
Exists ==
  /\ Called
  /\ \E so \in StatOutcomes :
       LET r == journalFileExists(pathKind, so)
       IN  ret' = Ret("Exists", pathKind, r.exists, r.err, <<so>>)
  /\ UNCHANGED <<wvars, fvars, snap, hvars, xvars>>

\* openJournalWriter(path), once the previous writer is closed, failed or
\* gone
Open ==
  /\ Called
  /\ wrState = "none" \/ wrState = "failed" \/ ~fileOpen
  /\ opens < MaxOpens
  /\ opens' = opens + 1
  /\ \E so \in StatOutcomes, oo \in OpenOutcomes :
       LET st == openStat(pathKind, so)
           tried == st.exists /\ st.err = NoErr
           io == IF tried THEN <<so, oo>> ELSE <<so>>
           err == IF tried THEN oo ELSE st.err
           ok == tried /\ oo = NoErr
       IN  /\ faults' = faults + Faults(io)
           /\ faults + Faults(io) <= MaxFaults
           /\ fileOpen' = ok
           /\ wrState' = IF ok THEN "needsReplay" ELSE "none"
           /\ ret' = Ret("Open", pathKind,
                         [wr |-> ok, exists |-> st.exists], err, io)
  /\ buf' = <<>> /\ off' = 0 /\ lookups' = <<>> /\ uncmpSz' = 0
  /\ snap' = NoSnap
  /\ journal' = <<>> /\ lastRoot' = zeroHash /\ written' = {}
  /\ closed' = FALSE
  /\ seen' = 0
  /\ UNCHANGED <<fvars, raw, origin, preClose, durable, later, pathKind,
                 cvars>>

ProcessJournal ==
  /\ Called
  /\ wrState = "needsReplay"
  /\ \E ro \in {NoErr, IoError} :
       LET r == processJournalRecords(file, 0,
                  [lookups |-> lookups, uncmpSz |-> uncmpSz,
                   last |-> zeroHash, err |-> NoErr, off |-> 0])
           err == IF ro # NoErr THEN ro ELSE r.err
       IN  /\ off' = IF ro # NoErr THEN 0 ELSE r.off
           /\ lookups' = IF ro # NoErr THEN lookups ELSE r.lookups
           /\ uncmpSz' = IF ro # NoErr THEN uncmpSz ELSE r.uncmpSz
           /\ wrState' = IF err = NoErr THEN "ready" ELSE "failed"
           /\ ret' = Ret("ProcessJournal",
                         [origin |-> origin, preClose |-> preClose],
                         IF err = NoErr THEN r.last ELSE zeroHash, err,
                         <<ro>>)
           /\ journal' = IF err = NoErr THEN Slice(file, 0, r.off) ELSE <<>>
           /\ lastRoot' = IF err = NoErr THEN r.last ELSE zeroHash
           /\ faults' = faults + Faults(<<ro>>)
           /\ faults + Faults(<<ro>>) <= MaxFaults
  /\ origin' = "replayed"
  /\ preClose' = NoPreClose
  /\ UNCHANGED <<buf, fileOpen, fvars, snap, written, raw, closed, opens,
                 durable, later, xvars>>

\* ------------------------------------------------------- the lock steps --
\* wr.lock is a sync.RWMutex: RLock waits while a writer holds the lock or
\* has called Lock and waits for it; Lock waits until the read locks held
\* are released.  The steps below are those of the threads on the lock;
\* they leave the journal as it is.
dvars == <<wvars, fvars, snap, ret, hvars, seen, pathKind, replayFirst>>

\* thread t enters an exported method
Begin(t, op) ==
  /\ pc[t] = NoOp
  /\ op \in (IF t = "w" THEN WriterOps ELSE ReaderOps)
  /\ pc' = [pc EXCEPT ![t] = [op |-> op, at |-> "acquire"]]
  /\ UNCHANGED <<lock, dvars>>

\* wr.lock.RLock() returns: at the head of a reading method, or at the
\* head of the ReadAt that getCompressed calls with its read lock held
RLock(t) ==
  /\ pc[t].op \in ReaderOps
  /\ pc[t].at \in {"acquire", "inner"}
  /\ lock.writer = "none"
  /\ lock' = [lock EXCEPT !.readers = lock.readers + 1]
  /\ pc' = [pc EXCEPT ![t].at = IF pc[t].at = "acquire" THEN "held"
                                 ELSE "nested"]
  /\ UNCHANGED dvars

\* getCompressed has found the address in the index and calls wr.ReadAt
CallReadAt(t) ==
  /\ pc[t] = [op |-> "getCompressed", at |-> "held"]
  /\ pc' = [pc EXCEPT ![t].at = "inner"]
  /\ UNCHANGED <<lock, dvars>>

\* the deferred wr.lock.RUnlock() of ReadAt inside getCompressed, and of
\* the reading method itself
RUnlock(t) ==
  /\ pc[t].op \in ReaderOps
  /\ pc[t].at \in {"held", "nested", "read"}
  /\ lock' = [lock EXCEPT !.readers = lock.readers - 1]
  /\ pc' = [pc EXCEPT ![t] = IF pc[t].at = "nested"
                               THEN [op |-> pc[t].op, at |-> "read"]
                               ELSE NoOp]
  /\ UNCHANGED dvars

\* wr.lock.Lock() is called: from now on no new read lock is granted
Lock(t) ==
  /\ pc[t].op \in WriterOps
  /\ pc[t].at = "acquire"
  /\ lock.writer = "none"
  /\ lock' = [lock EXCEPT !.writer = "waiting"]
  /\ pc' = [pc EXCEPT ![t].at = "waiting"]
  /\ UNCHANGED dvars

\* wr.lock.Lock() returns once the read locks held are released
LockAcquired(t) ==
  /\ pc[t].at = "waiting"
  /\ lock.readers = 0
  /\ lock' = [lock EXCEPT !.writer = "held"]
  /\ pc' = [pc EXCEPT ![t].at = "held"]
  /\ UNCHANGED dvars

\* the deferred wr.lock.Unlock()
Unlock(t) ==
  /\ pc[t].op \in WriterOps
  /\ pc[t].at = "held"
  /\ lock' = [lock EXCEPT !.writer = "none"]
  /\ pc' = [pc EXCEPT ![t] = NoOp]
  /\ UNCHANGED dvars

\* one writer thread and the reader threads on the lock of one writer
NextLock ==
  \E t \in Threads :
    \/ \E op \in WriterOps \cup ReaderOps : Begin(t, op)
    \/ RLock(t)
    \/ CallReadAt(t)
    \/ RUnlock(t)
    \/ Lock(t)
    \/ LockAcquired(t)
    \/ Unlock(t)

SpecLock == Init /\ [][NextLock]_vars

\* one writer from createJournalWriter to Close and after
Next ==
  \/ \E cc \in Chunks : WriteChunk(cc)
  \/ \E root \in RootHashes : WriteRootHash(root)
  \/ \E p \in RawInputs : Write(p)
  \/ Snapshot
  \/ ReadSnapshot
  \/ \E h \in ChunkAddrs : has(h)
  \/ \E h \in ChunkAddrs : getCompressed(h)
  \/ \E o \in 0..(MaxJournal + 1), n \in 0..MaxRead : ReadAt(o, n)
  \/ Close
  \/ Return

Spec == Init /\ [][Next]_vars

\* one writer and the readers that poll CurrentSize and read below it
NextReaders ==
  \/ \E cc \in Chunks : WriteChunk(cc)
  \/ \E root \in RootHashes : WriteRootHash(root)
  \/ \E p \in RawInputs : Write(p)
  \/ Snapshot
  \/ CurrentSize
  \/ \E o \in 0..(MaxJournal + 1), n \in 0..MaxRead : ReadAt(o, n)
  \/ Close
  \/ Return

SpecReaders == Init /\ [][NextReaders]_vars

\* writers that append records, close or crash, and are reopened and
\* replayed
NextReplay ==
  \/ \E cc \in Chunks : WriteChunk(cc)
  \/ \E root \in RootHashes : WriteRootHash(root)
  \/ Close
  \/ Crash
  \/ Open
  \/ ProcessJournal
  \/ uncompressedSize
  \/ Return

SpecReplay == Init /\ [][NextReplay]_vars

\* the path is probed, the journal created or opened, written and closed
NextPath ==
  \/ Exists
  \/ Create
  \/ Open
  \/ ProcessJournal
  \/ \E cc \in Chunks : WriteChunk(cc)
  \/ Close
  \/ Return

SpecPath == InitPath /\ [][NextPath]_vars

\* writers that append records and close, and are reopened and written to
\* with or without a replay in between
NextUnreplayed ==
  \/ \E cc \in {c \in Chunks : c.H = 1} : WriteChunk(cc)
  \/ \E root \in RootHashes : WriteRootHash(root)
  \/ Close
  \/ Open
  \/ ProcessJournal
  \/ Return

SpecUnreplayed == InitUnreplayed /\ [][NextUnreplayed]_vars

\* a journal of small chunks is closed, damaged, reopened and replayed
NextCorrupt ==
  \/ \E cc \in TinyChunks : WriteChunk(cc)
  \/ Close
  \/ \E h \in TinyAddrs, i \in 1..recMinSz, v \in CorruptBytes :
       Corrupt(h, i, v)
  \/ Open
  \/ ProcessJournal
  \/ Return

SpecCorrupt == Init /\ [][NextCorrupt]_vars

\* ------------------------------------------------------------ properties --
ChunkOf(a) == NewCompressedChunk(a, PayloadOf(a))
NoFault(io) == \A i \in DOMAIN io : io[i] = NoErr
WriteOps == {"WriteChunk", "WriteRootHash", "Write", "Snapshot", "Close"}

\* C1: while the file is open, every chunk WriteChunk has written is in
\* the index, and getCompressed of every indexed address returns exactly
\* that chunk, whether its record is in the file or in the buffer, unless
\* the file read itself fails.
C1_WrittenChunksReadable ==
  (wrState = "ready" /\ fileOpen) =>
    /\ written \subseteq DOMAIN lookups
    /\ \A a \in DOMAIN lookups :
         getCompressedOf(lookups, buf, off, file, a, NoErr)
           = [cc |-> ChunkOf(a), err |-> NoErr]
    /\ (ret.op = "has" /\ ret.arg \in written) => ret.val = TRUE
    /\ (ret.op = "getCompressed" /\ ret.arg \in DOMAIN lookups
          /\ NoFault(ret.io))
         => (ret.val = ChunkOf(ret.arg) /\ ret.err = NoErr)

\* getCompressed has returned a chunk whose record is in the file while
\* another record sits in the buffer
C1_Witness ==
  /\ ret.op = "getCompressed"
  /\ ret.arg \in written
  /\ lookups[ret.arg].journalOff < off
  /\ buf # <<>>
  /\ ret.val = ChunkOf(ret.arg)

\* C2: a ReadAt that starts inside the logical journal and whose file
\* read does not fail returns exactly the bytes of that range of the
\* concatenation of the records written so far, cut at the logical end.
C2_ReadAtIsContiguousView ==
  (ret.op = "ReadAt" /\ ret.arg.o < Len(journal) /\ NoFault(ret.io)) =>
    /\ ret.err = NoErr
    /\ ret.val.data = Slice(journal, ret.arg.o, ret.arg.n)
    /\ ret.val.n = Len(ret.val.data)

\* a straddled read: it starts in the file and ends in the buffer
C2_Witness ==
  /\ ret.op = "ReadAt"
  /\ ret.arg.o < off
  /\ ret.arg.o + ret.arg.n > off
  /\ ret.val.n = ret.arg.n
  /\ ret.err = NoErr

\* C3: when WriteRootHash returns nil the buffer is empty and the file and
\* the device hold every byte of the logical journal; and a later replay
\* whose reads do not fail indexes every chunk written before that
\* WriteRootHash, each readable, and returns that root or one appended
\* after it.
C3_RootHashIsDurable ==
  /\ (ret.op = "WriteRootHash" /\ ret.err = NoErr) =>
       /\ buf = <<>>
       /\ off = Len(journal)
       /\ Slice(file, 0, off) = journal
       /\ Slice(synced, 0, off) = journal
       /\ durable.root = ret.arg
  /\ (ret.op = "ProcessJournal" /\ durable.valid /\ NoFault(ret.io)) =>
       /\ ret.err = NoErr
       /\ durable.chunks \subseteq DOMAIN lookups
       /\ \A a \in durable.chunks :
            getCompressedOf(lookups, buf, off, file, a, NoErr)
              = [cc |-> ChunkOf(a), err |-> NoErr]
       /\ ret.val \in {durable.root} \cup later

\* a replay after a crash has recovered a durable chunk and the durable
\* root
C3_Witness ==
  /\ ret.op = "ProcessJournal"
  /\ ret.arg.origin = "crash"
  /\ durable.valid
  /\ durable.chunks # {}
  /\ durable.chunks \subseteq DOMAIN lookups
  /\ ret.val = durable.root

\* C4: a replay of a journal left by a Close that returned nil, when its
\* reads do not fail, rebuilds the index Close left, sets off to the
\* logical end Close left, and returns the last root-hash record appended
\* (the zero hash if none).
C4_ReplayLaw ==
  (ret.op = "ProcessJournal" /\ ret.arg.origin = "close"
     /\ NoFault(ret.io)) =>
    /\ ret.err = NoErr
    /\ lookups = ret.arg.preClose.lookups
    /\ off = ret.arg.preClose.end
    /\ ret.val = ret.arg.preClose.lastRoot

\* a replay after Close has rebuilt the index of a chunk and returned a
\* root
C4_Witness ==
  /\ ret.op = "ProcessJournal"
  /\ ret.arg.origin = "close"
  /\ ret.val \in RootHashes
  /\ DOMAIN lookups # {}
  /\ lookups = ret.arg.preClose.lookups

\* C5: Snapshot returns the logical end at the time of the call, all of
\* it in the file; and the reader it returned, read to completion at any
\* later time, yields exactly the logical journal up to that length.
C5_SnapshotIsolation ==
  /\ (ret.op = "Snapshot" /\ ret.err = NoErr) =>
       /\ ret.val = ret.arg
       /\ buf = <<>>
       /\ Slice(file, 0, ret.val) = Slice(journal, 0, ret.val)
  /\ ret.op = "ReadSnapshot" =>
       /\ Len(ret.val) = snap.n
       /\ ret.val = Slice(journal, 0, snap.n)

\* a snapshot is read after the writer has appended and flushed more
C5_Witness ==
  /\ ret.op = "ReadSnapshot"
  /\ snap.n > 0
  /\ off > snap.n
  /\ buf # <<>>

\* C6: CurrentSize returns the sum of the encoded lengths of all records
\* written so far, whether flushed or still in the buffer.
C6_CurrentSizeIsLogicalEnd ==
  ret.op = "CurrentSize" => ret.val = Len(journal)

\* C7: a WriteChunk whose record is one byte longer than the buffer
\* capacity fails with OversizeRecord and leaves off, buf, the index and
\* the file unchanged; one whose record is exactly the capacity is not
\* rejected, and when its flush does not fail it succeeds with the buffer
\* holding just that record at the previous logical end.
C7_OversizeBoundary ==
  [][(ret.op = "idle" /\ ret'.op = "WriteChunk") =>
       LET cc == ChunkOf(ret'.arg)
           l == chunkRecordSize(cc).l
       IN  /\ ret'.err = OversizeRecord <=> l > journalWriterBuffSize
           /\ l = journalWriterBuffSize + 1 =>
                UNCHANGED <<buf, off, lookups, file>>
           /\ (l = journalWriterBuffSize /\ NoFault(ret'.io)) =>
                /\ ret'.err = NoErr
                /\ buf' = writeChunkRecord(cc)
                /\ off' = off + Len(buf)
                /\ Slice(file', 0, off') = Slice(file, 0, off) \o buf
     ]_vars

\* a record of exactly the capacity was written after a flush of a
\* non-empty buffer
C7_Witness ==
  /\ ret.op = "WriteChunk"
  /\ chunkRecordSize(ChunkOf(ret.arg)).l = journalWriterBuffSize
  /\ ret.err = NoErr
  /\ ret.io = <<NoErr>>
  /\ off > 0

\* C8: a ReadAt whose range extends past, or starts at or beyond, the
\* logical end returns without error the bytes that exist in the range.
C8_ReadPastEndIsShort ==
  (ret.op = "ReadAt" /\ ret.arg.o + ret.arg.n > Len(journal)
     /\ NoFault(ret.io)) =>
    /\ ret.err = NoErr
    /\ ret.val.data = Slice(journal, ret.arg.o, ret.arg.n)
    /\ ret.val.n = Len(ret.val.data)

\* C9: once Close has returned nil, every WriteChunk, WriteRootHash,
\* Write, Snapshot and Close fails with the closed-journal error and
\* changes neither buf, off, the index nor the file.
C9_ClosedIsTerminal ==
  [][(closed /\ ret.op = "idle" /\ ret'.op \in WriteOps) =>
       /\ ret'.err = ErrClosed
       /\ UNCHANGED <<buf, off, lookups, file>>
     ]_vars

\* the last of the errors of the steps of Close
LastErr(io) ==
  IF io[3] # NoErr THEN io[3]
  ELSE IF io[2] # NoErr THEN io[2]
  ELSE io[1]

\* C10: Close attempts the flush, the fsync and the release of the file
\* handle whichever of them fail, and returns the error of the latest
\* failing step.
C10_CloseAttemptsAllSteps ==
  (ret.op = "Close" /\ ~closed) =>
    /\ Len(ret.io) = 3
    /\ ~fileOpen
    /\ ret.err = LastErr(ret.io)

\* C11: an operation one of whose system calls failed returns a non-nil
\* error to its caller; in particular getCompressed of an indexed address
\* whose file read failed does not return an empty chunk with a nil error.
C11_NoErrorSwallowed ==
  (ret.op # "idle" /\ ~NoFault(ret.io)) => ret.err # NoErr

\* C12: the journal file keeps exactly its pre-allocated length under
\* every sequence of WriteChunk, WriteRootHash, Write, Snapshot and Close.
C12_FileKeepsPreallocatedSize ==
  Len(file) = chunkJournalFileSize

\* C13: once a reader has seen CurrentSize return X, every later ReadAt of
\* a range inside [0, X), while the file is open and unless the file read
\* itself fails, returns all the requested bytes of the logical journal,
\* whatever was appended or flushed in between.
C13_ReadBelowObservedSize ==
  (ret.op = "ReadAt" /\ fileOpen /\ ret.arg.o + ret.arg.n <= seen
     /\ NoFault(ret.io)) =>
    /\ ret.err = NoErr
    /\ ret.val.n = ret.arg.n
    /\ ret.val.data = SubSeq(journal, ret.arg.o + 1, ret.arg.o + ret.arg.n)

\* a full read below an observed size, after more was flushed and appended
C13_Witness ==
  /\ ret.op = "ReadAt"
  /\ ret.arg.n > 1
  /\ ret.arg.o + ret.arg.n <= seen
  /\ off > seen
  /\ buf # <<>>
  /\ ret.val.n = ret.arg.n

\* C14: when a record of a cleanly closed journal no longer validates, a
\* replay whose reads do not fail returns no error, sets off to the offset
\* of that record, and indexes exactly the chunk records before it: none
\* at or after it, and every one before it as Close left it.
C14_ReplayStopsAtCorruptRecord ==
  (ret.op = "ProcessJournal" /\ ret.arg.origin = "corrupt"
     /\ NoFault(ret.io)
     /\ ~validateJournalRecord(
           Slice(file, ret.arg.preClose.cut, Len(file)))) =>
    LET pre == ret.arg.preClose
    IN  /\ ret.err = NoErr
        /\ wrState = "ready"
        /\ off = pre.cut
        /\ \A a \in DOMAIN lookups :
             lookups[a].journalOff + lookups[a].recordLen <= pre.cut
        /\ \A a \in DOMAIN pre.lookups :
             pre.lookups[a].journalOff < pre.cut =>
               (a \in DOMAIN lookups /\ lookups[a] = pre.lookups[a])
        /\ lookups = processJournalRecords(Slice(journal, 0, pre.cut), 0,
                        [lookups |-> <<>>, uncmpSz |-> 0, last |-> zeroHash,
                         err |-> NoErr, off |-> 0]).lookups

\* of three chunks written and closed the second was corrupted, and the
\* replay has indexed the first only
C14_Witness ==
  /\ ret.op = "ProcessJournal"
  /\ ret.arg.origin = "corrupt"
  /\ Cardinality(DOMAIN ret.arg.preClose.lookups) = 3
  /\ ret.arg.preClose.cut = recMinSz
  /\ Cardinality(DOMAIN lookups) = 1
  /\ off = recMinSz
  /\ ret.err = NoErr

\* C15: createJournalWriter on a path where a file exists fails, with
\* AlreadyExists when os.Stat itself does not fail, returns no writer, and
\* changes neither the file, its content and length, nor the writer that
\* created it.
C15_CreateOnExistingFails ==
  [][(ret.op = "idle" /\ ret'.op = "Create" /\ pathKind = "file") =>
       /\ ret'.err # NoErr
       /\ NoFault(ret'.io) => ret'.err = AlreadyExists
       /\ ret'.val = FALSE
       /\ UNCHANGED <<file, synced, pathKind, wvars>>
     ]_vars

\* a second create has failed while the writer of the first is live and
\* has flushed a record to the file
C15_Witness ==
  /\ ret.op = "Create"
  /\ ret.arg = "file"
  /\ ret.err = AlreadyExists
  /\ origin = "create"
  /\ wrState = "ready"
  /\ off > 0
  /\ Slice(file, 0, off) = Slice(journal, 0, off)

\* C16: createJournalWriter, openJournalWriter and journalFileExists on a
\* path that is a directory fail with IsDirectory.
C16_DirectoryIsRejectedAsSuch ==
  (ret.op \in {"Create", "Open", "Exists"} /\ ret.arg = "dir"
     /\ NoFault(ret.io)) =>
    ret.err = IsDirectory

\* C17: openJournalWriter on an absent path returns no writer, exists =
\* false and no error and creates nothing, and createJournalWriter on an
\* absent path succeeds; openJournalWriter on an existing file returns a
\* writer and exists = true, with an empty buffer, an empty index and
\* off = 0.  (System calls failing for other reasons aside.)
C17_OpenAbsentIsNotAnError ==
  /\ (ret.op = "Open" /\ ret.arg = "absent" /\ NoFault(ret.io)) =>
       /\ ret.err = NoErr
       /\ ret.val = [wr |-> FALSE, exists |-> FALSE]
       /\ pathKind = "absent"
       /\ file = <<>>
       /\ wrState = "none"
  /\ (ret.op = "Create" /\ ret.arg = "absent" /\ NoFault(ret.io)) =>
       /\ ret.err = NoErr
       /\ ret.val = TRUE
       /\ wrState = "ready"
       /\ pathKind = "file"
       /\ file = Zeros(chunkJournalFileSize)
  /\ (ret.op = "Open" /\ ret.arg = "file" /\ NoFault(ret.io)) =>
       /\ ret.err = NoErr
       /\ ret.val = [wr |-> TRUE, exists |-> TRUE]
       /\ buf = <<>>
       /\ lookups = <<>>
       /\ off = 0
       /\ wrState = "needsReplay"

\* a create has succeeded after an open had found the path absent
C17_Witness ==
  /\ ret.op = "Create"
  /\ ret.arg = "absent"
  /\ ret.err = NoErr
  /\ opens > 0
  /\ wrState = "ready"

\* the sum of the uncompressed payload sizes of the chunk records of |j|
UncompressedSum(j) ==
  processJournalRecords(j, 0,
    [lookups |-> <<>>, uncmpSz |-> 0, last |-> zeroHash, err |-> NoErr,
     off |-> 0]).uncmpSz

\* C18: uncompressedSize returns the sum of the uncompressed payload sizes
\* of all chunk records of the journal, those indexed by replay and those
\* WriteChunk has appended since.
C18_UncompressedSizeIsRunningSum ==
  ret.op = "uncompressedSize" => ret.val = UncompressedSum(journal)

ReadOps == {"ReadAt", "ReadSnapshot", "has", "getCompressed"}

\* C19: off + len(buf) is the number of bytes appended so far: it starts
\* equal to the length of the logical journal and stays so; a successful
\* WriteChunk, WriteRootHash or Write adds exactly the encoded length of
\* its record; Snapshot, Close and the reads leave it unchanged; and a
\* successful flush, in every reachable state, moves the len(buf) bytes of
\* buf to the file at off and advances off by as much.
C19_LogicalEndCountsAppendedBytes ==
  [][/\ off + Len(buf) = Len(journal)
     /\ off' + Len(buf') = Len(journal')
     /\ ret.op = "idle" =>
          LET d == (off' + Len(buf')) - (off + Len(buf))
          IN  /\ (ret'.op = "WriteChunk" /\ ret'.err = NoErr) =>
                   d = chunkRecordSize(ChunkOf(ret'.arg)).l
              /\ (ret'.op = "WriteRootHash" /\ ret'.err = NoErr) =>
                   d = rootHashRecordSize
              /\ (ret'.op = "Write" /\ ret'.err = NoErr) =>
                   d = Len(ret'.arg)
              /\ ret'.op \in {"Snapshot", "Close"} \cup ReadOps => d = 0
     /\ \A wo \in WriteAtOutcomes(buf, fileOpen) :
          wo.err = NoErr =>
            LET w == flush(W, wo)
            IN  /\ w.off = off + Len(buf)
                /\ w.buf = <<>>
                /\ Slice(w.file, off, Len(buf)) = buf
                /\ Slice(w.file, 0, off) = Slice(file, 0, off)
    ]_vars

\* a Write larger than the buffered bytes went directly to the file after
\* the flush of a record
C19_Witness ==
  /\ ret.op = "Write"
  /\ ret.err = NoErr
  /\ ret.val = Len(ret.arg)
  /\ buf = <<>>
  /\ off = Len(journal)
  /\ off > Len(ret.arg)

\* C20: off never decreases; a step that shortens or empties buf has
\* advanced off by at least the bytes buf held and put them in the file at
\* the old off; in every reachable state a successful flush empties buf
\* and advances off by exactly len(buf), and a failed flush leaves off and
\* buf unchanged, and so does an operation that stops at its failed flush.
C20_OffMonotoneBufEmptiedByFlush ==
  [][/\ off' >= off
     /\ (Len(buf') < Len(buf) \/ (buf # <<>> /\ Len(buf') <= Len(buf)
                                     /\ buf' # buf)) =>
          /\ off' >= off + Len(buf)
          /\ Slice(file', off, Len(buf)) = buf
     /\ \A wo \in WriteAtOutcomes(buf, fileOpen) :
          LET w == flush(W, wo)
          IN  IF wo.err = NoErr
              THEN w.buf = <<>> /\ w.off = off + Len(buf)
              ELSE w.buf = buf /\ w.off = off
     /\ (ret.op = "idle"
           /\ ret'.op \in {"WriteChunk", "Write", "Snapshot", "Close"}
           /\ Len(ret'.io) = 1 /\ ret'.err \in {IoError, ErrClosed}) =>
          UNCHANGED <<off, buf>>
    ]_vars

\* an operation has stopped at a flush that failed after it had written
\* part of the buffer to the file
C20_Witness ==
  /\ ret.op \in {"WriteChunk", "Snapshot", "Close"}
  /\ ret.err = IoError
  /\ buf # <<>>
  /\ off > 0
  /\ file[off + 1] = buf[1]

\* the logical journal as the writer holds it: the flushed part of the
\* file followed by the buffer
Logical == Slice(file, 0, off) \o buf

\* the offsets [o, o + n) and [p, p + m) do not overlap
Apart(o, n, p, m) == o + n <= p \/ p + m <= o

\* C21: on a usable writer every index entry ends at or before the
\* logical end, its record lies wholly in the flushed part of the file or
\* wholly in the buffer and is the record of its chunk, no two entries
\* overlap, and, raw Write calls aside, the logical journal is a sequence
\* of valid records contiguous from offset 0.
C21_RecordsNeverStraddle ==
  wrState = "ready" =>
    /\ \A a \in DOMAIN lookups :
         LET l == lookups[a]
         IN  /\ l.journalOff + l.recordLen <= off + Len(buf)
             /\ l.journalOff + l.recordLen <= off \/ l.journalOff >= off
             /\ Slice(Logical, l.journalOff, l.recordLen)
                  = writeChunkRecord(ChunkOf(a))
    /\ \A a, b \in DOMAIN lookups :
         a # b => Apart(lookups[a].journalOff, lookups[a].recordLen,
                        lookups[b].journalOff, lookups[b].recordLen)
    /\ ~raw =>
         processJournalRecords(Logical, 0,
           [lookups |-> <<>>, uncmpSz |-> 0, last |-> zeroHash,
            err |-> NoErr, off |-> 0]).off = Len(Logical)

\* a record that did not fit in the room left was written whole to the
\* buffer after the flush of the record before it
C21_Witness ==
  /\ ret.op = "WriteChunk"
  /\ ret.err = NoErr
  /\ ret.io = <<NoErr>>
  /\ Cardinality(DOMAIN lookups) = 2
  /\ off > 0
  /\ lookups[ret.arg].journalOff = off
  /\ Len(buf) = lookups[ret.arg].recordLen
  /\ Len(buf) < journalWriterBuffSize

\* C22: a WriteChunk or WriteRootHash that returns an error leaves off,
\* the bytes of buf, the index and the flushed part of the file as they
\* were before the call.
C22_FailedWriteLeavesNoRecord ==
  [][(ret.op = "idle" /\ ret'.op \in {"WriteChunk", "WriteRootHash"}
        /\ ret'.err # NoErr) =>
       /\ UNCHANGED <<off, buf, lookups>>
       /\ Slice(file', 0, off') = Slice(file, 0, off)
     ]_vars

\* C25: journalFileExists returns for every outcome of os.Stat: (false,
\* nil) on an absent path, (true, IsDirectory) on a directory, (true, nil)
\* on a file, and the error when os.Stat fails for another reason.
C25_ExistsHandlesEveryStat ==
  ret.op = "Exists" =>
    IF NoFault(ret.io)
    THEN /\ ret.arg = "absent" => (ret.val = FALSE /\ ret.err = NoErr)
         /\ ret.arg = "dir" => (ret.val = TRUE /\ ret.err = IsDirectory)
         /\ ret.arg = "file" => (ret.val = TRUE /\ ret.err = NoErr)
    ELSE ret.err = IoError

\* the end of the valid records stored from offset 0 of |f|
ValidEnd(f) ==
  processJournalRecords(f, 0,
    [lookups |-> <<>>, uncmpSz |-> 0, last |-> zeroHash, err |-> NoErr,
     off |-> 0]).off

\* C24: no WriteChunk, WriteRootHash, Write, Snapshot or Close changes a
\* byte of the file below the end of the valid records the file holds,
\* also on an opened writer on which ProcessJournal was not called.
C24_AppendOnly ==
  [][(ret.op = "idle" /\ ret'.op \in WriteOps) =>
       \A i \in 1..ValidEnd(file) : file'[i] = file[i]
     ]_vars

\* thread t is in a call of RLock or Lock that cannot return
Blocked(t) ==
  \/ pc[t].at \in {"acquire", "inner"} /\ pc[t].op \in ReaderOps
       /\ lock.writer # "none"
  \/ pc[t].at = "waiting" /\ lock.readers > 0

\* C23: in no reachable state are all threads blocked on the lock.
C23_NoLockDeadlock ==
  ~(\A t \in Threads : Blocked(t))
====
